---- MODULE Spec2Model ----
(***************************************************************************)
(* Model of the pocketci webhook proxy (src/proxy/main.go).                *)
(*                                                                         *)
(* The process starts up (main), picks one of two modes from the -hooks    *)
(* flag, registers a signal goroutine and serves HTTP.  In static mode one *)
(* shared service/tunnel pair (slot 0) is started by reverseProxy and all  *)
(* requests relay to its endpoint.  In clone-and-proxy mode every request  *)
(* runs the gitCloneProxy pipeline on its own service/tunnel pair (slot r  *)
(* for request r).                                                         *)
(*                                                                         *)
(* Strings that the code takes apart (repository.full_name) are sequences  *)
(* of one-character strings; other strings are opaque values.              *)
(***************************************************************************)
EXTENDS Integers, Sequences, FiniteSets, TLC

\* ---------------------------------------------------------------- bounds
NumRequests == 2

Requests == 1..NumRequests
\* slot 0 holds the svc/tunnel variables of reverseProxy, slot r those of
\* the handler invocation serving request r
Slots == 0..NumRequests

\* ------------------------------------------------------- inputs (bodies)
\* longest repository.full_name a caller sends in the single-caller scenario
MaxNameLen == 3

Chars == {"a", "/"}
RECURSIVE SeqsUpTo(_)
SeqsUpTo(n) ==
    IF n = 0 THEN {<<>>}
    ELSE LET shorter == SeqsUpTo(n - 1) IN
         shorter \cup {Append(q, c) : q \in {x \in shorter : Len(x) = n - 1}, c \in Chars}
FullNames == SeqsUpTo(MaxNameLen)
Afters == {"", "c1"}

\* a JSON member: absent, present with a number, present with a string
Absent == [t |-> "absent", v |-> <<>>]
Num == [t |-> "num", v |-> <<>>]
Str(s) == [t |-> "str", v |-> s]
AbsentA == [t |-> "absent", v |-> ""]
NumA == [t |-> "num", v |-> ""]
StrA(s) == [t |-> "str", v |-> s]

\* a request body, seen as the JSON document it spells (or fails to spell)
NotJson == [kind |-> "syntax", repo |-> "absent", full_name |-> Absent, after |-> AbsentA]
JsonString == [kind |-> "string", repo |-> "absent", full_name |-> Absent, after |-> AbsentA]
JsonNull == [kind |-> "null", repo |-> "absent", full_name |-> Absent, after |-> AbsentA]
Obj(rp, fn, af) == [kind |-> "object", repo |-> rp, full_name |-> fn, after |-> af]
EmptyObj == Obj("absent", Absent, AbsentA)
Push(n, c) == Obj("object", Str(n), StrA(c))

AfterMembers == {AbsentA, NumA} \cup {StrA(c) : c \in Afters}
NameMembers == {Absent, Num} \cup {Str(n) : n \in FullNames}
AllBodies ==
    {NotJson, JsonString, JsonNull}
    \cup {Obj(rp, Absent, af) : rp \in {"absent", "num"}, af \in AfterMembers}
    \cup {Obj("object", fn, af) : fn \in NameMembers, af \in AfterMembers}

\* in the concurrent scenario the caller of request r pushes to a repository
\* of its own, or sends something that is not JSON
Owners == <<"a", "b", "c", "d">>
NameOf(r) == <<"o", "/", Owners[r]>>
PushBodies(r) == {NotJson, Push(NameOf(r), "c1")}

NoBody == [kind |-> "none", repo |-> "absent", full_name |-> Absent, after |-> AbsentA]
Drained == [kind |-> "drained", repo |-> "absent", full_name |-> Absent, after |-> AbsentA]

\* values tunnel.Endpoint can return; the last one does not parse as a URL
\* values tunnel.Endpoint can return for the tunnel of slot s: the URL of its
\* host port, or (never seen, but handled by the code) a string that does
\* not parse as a URL
GoodEndpoint(s) == <<"http://h:", s>>
BadEndpoint(s) == <<"http://h:%zz", s>>
Endpoints(s) == {GoodEndpoint(s), BadEndpoint(s)}
NoEndpoint == <<"", 0>>

VARIABLES
    scenario,   \* who calls: "concurrent" callers pushing, or a "single"
                \* caller sending any body
    mpc,        \* position of main: connect, sync, mode, hooks, rp_start,
                \* rp_endpoint, setup, listen, serving, exited, fatal, killed
    hooksPath,  \* value of the -hooks flag
    mainCli,    \* the dagger client of main: none, open, closed
    hooks,      \* contents read from the hooks file ("<unread>" before)
    synced,     \* the webhook container template has been built (Sync)
    stopFn,     \* the stop closure: "noop" or "static"
    notify,     \* signal.Notify has been called
    ch,         \* number of signals buffered in ch (capacity 1)
    gpc,        \* signal goroutine: none, wait, tunstop, done
    stopRuns,   \* number of times stop() was called
    env,        \* per slot: service none/running/stopped
    tun,        \* per slot: tunnel none/open/closed
    mount,      \* per slot: path the payload is mounted at
    calls,      \* per slot: counters of Instantiate/Open/Stop/Close
    endpoint,   \* per slot: the endpoint string obtained from the tunnel
    hpc,        \* per request: position of the handler
    body,       \* per request: the body the caller sent
    method,     \* per request: the method the caller used ("" = none yet)
    reqBody,    \* per request: what r.Body yields when read now
    gh,         \* per request: the decoded GithubWebhook
    cancelled,  \* per request: r.Context() is cancelled
    cli,        \* per request: the handler's dagger client
    attempts,   \* per request: pipeline operations attempted
    resolved,   \* per request: arguments given to Git(..).Commit(..)
    resp,       \* per request: status written to the caller (0 = none)
    fwd         \* per request: where and what was forwarded upstream

procVars == <<mpc, hooksPath, mainCli, hooks, synced, stopFn, notify, ch, gpc, stopRuns>>
slotVars == <<env, tun, mount, calls, endpoint>>
reqVars == <<hpc, body, method, reqBody, gh, cancelled, cli, attempts, resolved, resp, fwd>>
vars == <<scenario, procVars, slotVars, reqVars>>

ZeroCalls == [inst |-> 0, open |-> 0, stop |-> 0, close |-> 0]
ZeroGh == [FullName |-> <<>>, After |-> ""]
NoResolve == [url |-> <<>>, commit |-> "", done |-> FALSE]
NoFwd == [to |-> NoEndpoint, method |-> "", body |-> NoBody, sent |-> FALSE]

Start ==
    /\ mpc = "connect"
    /\ hooksPath \in {"", "hooks.json"}
    /\ mainCli = "none"
    /\ hooks = "<unread>"
    /\ synced = FALSE
    /\ stopFn = "noop"
    /\ notify = FALSE
    /\ ch = 0
    /\ gpc = "none"
    /\ stopRuns = 0
    /\ env = [s \in Slots |-> "none"]
    /\ tun = [s \in Slots |-> "none"]
    /\ mount = [s \in Slots |-> <<>>]
    /\ calls = [s \in Slots |-> ZeroCalls]
    /\ endpoint = [s \in Slots |-> NoEndpoint]
    /\ hpc = [r \in Requests |-> "idle"]
    /\ body = [r \in Requests |-> NoBody]
    /\ method = [r \in Requests |-> ""]
    /\ reqBody = [r \in Requests |-> NoBody]
    /\ gh = [r \in Requests |-> ZeroGh]
    /\ cancelled = [r \in Requests |-> FALSE]
    /\ cli = [r \in Requests |-> "none"]
    /\ attempts = [r \in Requests |-> {}]
    /\ resolved = [r \in Requests |-> NoResolve]
    /\ resp = [r \in Requests |-> 0]
    /\ fwd = [r \in Requests |-> NoFwd]

Init == scenario = "concurrent" /\ Start
InitSingle == scenario = "single" /\ Start

\* requests the server gets, and the bodies they carry
Admitted(r) == scenario = "concurrent" \/ r = 1
Bodies(r) == IF scenario = "concurrent" THEN PushBodies(r) ELSE AllBodies
Methods == IF scenario = "concurrent" THEN {"POST"} ELSE {"POST", "GET"}

\* the process is running (not exited, not killed)
Alive == mpc \notin {"exited", "fatal", "killed"}
Serving == mpc = "serving"
StaticMode == hooksPath # ""

\* ------------------------------------------------------ service and tunnel
\* Tunnel(svc).Start(ctx): evaluates the lazy pipeline (resolve the payload,
\* instantiate the service, open the tunnel) and fails at any of its stages;
\* when the tunnel stage fails the service has already been started and is
\* left running.  A cancelled ctx makes the call fail.  Closing a dagger
\* client is not taken to stop services: only svc.Stop does.
StartOutcomes(dead) ==
    IF dead THEN {"resolve_err", "provision_err", "tunnel_err"}
    ELSE {"resolve_err", "provision_err", "tunnel_err", "ok"}

EnvAfterStart(o) == IF o \in {"tunnel_err", "ok"} THEN "running" ELSE "none"
TunAfterStart(o) == IF o = "ok" THEN "open" ELSE "none"
CallsAfterStart(c, o) ==
    [c EXCEPT !.inst = IF o = "resolve_err" THEN @ ELSE @ + 1,
              !.open = IF o \in {"tunnel_err", "ok"} THEN @ + 1 ELSE @]

\* svc.Stop(ctx): a call on a cancelled ctx returns the ctx error and has no
\* effect; the error is dropped by the callers
SvcStop(e, s, dead) ==
    IF dead \/ e[s] # "running" THEN e ELSE [e EXCEPT ![s] = "stopped"]

\* tunnel.Stop(ctx), likewise
TunnelStop(t, s, dead) ==
    IF dead \/ t[s] # "open" THEN t ELSE [t EXCEPT ![s] = "closed"]

\* UrlParseOk if the error of url.Parse were ignored
UrlParseOk_ignored(e) == TRUE

\* url.Parse(endpoint)
UrlParseOk(e) == e[1] = "http://h:"

HooksMount == <<"/", "hooks", "/", "hooks.json">>

\* ------------------------------------------------------------------- main
\* main.go 28-32
MainConnect ==
    /\ mpc = "connect"
    /\ \E ok \in BOOLEAN :
          IF ok THEN mainCli' = "open" /\ mpc' = "sync"
          ELSE mainCli' = mainCli /\ mpc' = "fatal"
    /\ UNCHANGED <<scenario, hooksPath, hooks, synced, stopFn, notify, ch, gpc, stopRuns>>
    /\ UNCHANGED <<slotVars, reqVars>>

\* main.go 36-38
MainSync ==
    /\ mpc = "sync"
    /\ \E ok \in BOOLEAN :
          IF ok THEN synced' = TRUE /\ mpc' = "mode"
          ELSE synced' = synced /\ mpc' = "fatal"
    /\ UNCHANGED <<scenario, hooksPath, mainCli, hooks, stopFn, notify, ch, gpc, stopRuns>>
    /\ UNCHANGED <<slotVars, reqVars>>

\* DefaultStop if the default were the static pair's stop closure
DefaultStop_static == "static"

\* main.go 42: stop := func() {}
DefaultStop == "noop"

\* main.go 40-45, 61-65
MainMode ==
    /\ mpc = "mode"
    /\ stopFn' = DefaultStop
    /\ mpc' = IF hooksPath # "" THEN "hooks" ELSE "setup"
    /\ UNCHANGED <<scenario, hooksPath, mainCli, hooks, synced, notify, ch, gpc, stopRuns>>
    /\ UNCHANGED <<slotVars, reqVars>>

\* HooksFatal without the test of main.go 52
HooksFatal_noEmptyCheck(contents) == contents = "<err>"

\* main.go 48-54: the read failed, or the file is empty
HooksFatal(contents) == contents \in {"<err>", ""}

\* main.go 46-54
MainHooks ==
    /\ mpc = "hooks"
    /\ \E contents \in {"<err>", "", "[hooks]"} :
          /\ hooks' = contents
          /\ mpc' = IF HooksFatal(contents) THEN "fatal" ELSE "rp_start"
    /\ UNCHANGED <<scenario, hooksPath, mainCli, synced, stopFn, notify, ch, gpc, stopRuns>>
    /\ UNCHANGED <<slotVars, reqVars>>

\* reverseProxy, main.go 93-103
RpStart ==
    /\ mpc = "rp_start"
    /\ \E o \in StartOutcomes(FALSE) :
          /\ env' = [env EXCEPT ![0] = EnvAfterStart(o)]
          /\ tun' = [tun EXCEPT ![0] = TunAfterStart(o)]
          /\ calls' = [calls EXCEPT ![0] = CallsAfterStart(@, o)]
          /\ mount' = [mount EXCEPT ![0] = IF o = "resolve_err" THEN @ ELSE HooksMount]
          /\ mpc' = IF o = "ok" THEN "rp_endpoint" ELSE "fatal"
    /\ UNCHANGED <<scenario, hooksPath, mainCli, hooks, synced, stopFn, notify, ch, gpc, stopRuns>>
    /\ UNCHANGED <<endpoint, reqVars>>

\* reverseProxy, main.go 105-124, and the assignment of stop at main.go 58-60
RpEndpoint ==
    /\ mpc = "rp_endpoint"
    /\ \/ /\ mpc' = "fatal"
          /\ UNCHANGED <<endpoint, stopFn>>
       \/ \E e \in Endpoints(0) :
          IF UrlParseOk(e)
          THEN /\ endpoint' = [endpoint EXCEPT ![0] = e]
               /\ stopFn' = "static"
               /\ mpc' = "setup"
          ELSE /\ mpc' = "fatal"
               /\ UNCHANGED <<endpoint, stopFn>>
    /\ UNCHANGED <<scenario, hooksPath, mainCli, hooks, synced, notify, ch, gpc, stopRuns>>
    /\ UNCHANGED <<env, tun, mount, calls, reqVars>>

\* main.go 67-82: signal.Notify and the start of the signal goroutine
MainSetup ==
    /\ mpc = "setup"
    /\ notify' = TRUE
    /\ gpc' = "wait"
    /\ mpc' = "listen"
    /\ UNCHANGED <<scenario, hooksPath, mainCli, hooks, synced, stopFn, ch, stopRuns>>
    /\ UNCHANGED <<slotVars, reqVars>>

\* what cancel() at main.go 81 does to the position of main: the context it
\* cancels (main.go 73) is handed to nobody, so nothing
AfterCancel(p) == p

\* main.go 84: ListenAndServe binds :8080 and starts accepting, or fails
MainListen ==
    /\ mpc = "listen"
    /\ \E ok \in BOOLEAN :
          IF ok THEN mpc' = "serving" /\ mainCli' = mainCli
          ELSE mpc' = "exited" /\ mainCli' = "closed"
    /\ UNCHANGED <<scenario, hooksPath, hooks, synced, stopFn, notify, ch, gpc, stopRuns>>
    /\ UNCHANGED <<slotVars, reqVars>>

\* the process ends: its goroutines and their locals are gone; only what
\* lives outside the process (services, tunnels) stays as it is
HandlersGone ==
    /\ hpc' = [r \in Requests |-> "gone"]
    /\ body' = [r \in Requests |-> NoBody]
    /\ method' = [r \in Requests |-> ""]
    /\ reqBody' = [r \in Requests |-> NoBody]
    /\ gh' = [r \in Requests |-> ZeroGh]
    /\ cancelled' = [r \in Requests |-> FALSE]
    /\ cli' = [r \in Requests |-> "none"]
    /\ attempts' = [r \in Requests |-> {}]
    /\ resolved' = [r \in Requests |-> NoResolve]
    /\ resp' = [r \in Requests |-> 0]
    /\ fwd' = [r \in Requests |-> NoFwd]

\* main.go 84-88 and the deferred client.Close of main.go 32: the serving
\* loop returns an error, main returns and the process ends
ServeExit ==
    /\ mpc = "serving"
    /\ mpc' = "exited"
    /\ mainCli' = "closed"
    /\ HandlersGone
    /\ UNCHANGED <<scenario, hooksPath, hooks, synced, stopFn, notify, ch, gpc, stopRuns>>
    /\ UNCHANGED slotVars

\* ---------------------------------------------------------------- signals
\* SIGINT/SIGTERM reaches the process.  Before signal.Notify the default
\* disposition ends the process; afterwards the runtime does a non-blocking
\* send on ch (capacity 1, main.go 74) and drops the signal when it is full.
Signal ==
    /\ Alive
    /\ IF notify
       THEN /\ ch' = IF ch < 1 THEN ch + 1 ELSE ch
            /\ mpc' = mpc
       ELSE /\ mpc' = "killed"
            /\ ch' = ch
    /\ UNCHANGED <<scenario, hooksPath, mainCli, hooks, synced, stopFn, notify, gpc, stopRuns>>
    /\ UNCHANGED <<slotVars, reqVars>>

\* AfterSignalHandled if the goroutine looped over ch
AfterSignalHandled_loop == "wait"

\* position of the goroutine after it has finished one pass of its body
\* (main.go 77-81): the body is not a loop, the goroutine ends
AfterSignalHandled == "done"

\* main.go 77-79: a signal is received from ch and stop() is entered; the
\* static closure first runs svc.Stop(ctx) (main.go 118), the default closure
\* does nothing and the goroutine goes on to cancel() (main.go 80-81)
GStop ==
    /\ Alive
    /\ gpc = "wait"
    /\ ch > 0
    /\ ch' = ch - 1
    /\ stopRuns' = stopRuns + 1
    /\ IF stopFn = "static"
       THEN /\ env' = SvcStop(env, 0, FALSE)
            /\ calls' = [calls EXCEPT ![0].stop = @ + 1]
            /\ gpc' = "tunstop"
            /\ mpc' = mpc
       ELSE /\ UNCHANGED <<env, calls>>
            /\ gpc' = AfterSignalHandled
            /\ mpc' = AfterCancel(mpc)
    /\ UNCHANGED <<scenario, hooksPath, mainCli, hooks, synced, stopFn, notify>>
    /\ UNCHANGED <<tun, mount, endpoint, reqVars>>

\* main.go 119, 80-81: tunnel.Stop(ctx) of the static stop closure, then
\* cancel() and the goroutine ends
GTunStop ==
    /\ Alive
    /\ gpc = "tunstop"
    /\ tun' = TunnelStop(tun, 0, FALSE)
    /\ calls' = [calls EXCEPT ![0].close = @ + 1]
    /\ gpc' = AfterSignalHandled
    /\ mpc' = AfterCancel(mpc)
    /\ UNCHANGED <<scenario, hooksPath, mainCli, hooks, synced, stopFn, notify, ch, stopRuns>>
    /\ UNCHANGED <<env, mount, endpoint, reqVars>>

\* ------------------------------------------------------ pure helper functions
\* strings.Split(s, sep) for a one-character separator
RECURSIVE Split(_, _)
Split(s, sep) ==
    IF s = <<>> THEN << <<>> >>
    ELSE LET rest == Split(Tail(s), sep) IN
         IF Head(s) = sep THEN << <<>> >> \o rest
         ELSE << <<Head(s)>> \o rest[1] >> \o Tail(rest)

\* RepoName if the first element of the split were taken
RepoName_first(fullName) ==
    LET fullRepo == Split(fullName, "/") IN fullRepo[1]

\* main.go 162-163: fullRepo[len(fullRepo)-1]
RepoName(fullName) ==
    LET fullRepo == Split(fullName, "/") IN fullRepo[Len(fullRepo)]

\* main.go 165-166: "/" + repoName
MountPath(fullName) == <<"/">> \o RepoName(fullName)

\* main.go 161: "https://github.com/" + gh.Repository.FullName
CloneURL(fullName) == <<"https://github.com/">> \o fullName

\* Unmarshal if the error of main.go 146 were not looked at for syntax errors
Unmarshal_noSyntaxCheck(doc) ==
    [err |-> doc.kind = "string",
     gh |-> [FullName |-> <<>>, After |-> ""]]

\* json.Unmarshal(b, gh) into a zero GithubWebhook (main.go 126-131, 145-146):
\* a syntax error or a value of the wrong JSON type is an error, an absent
\* field (or null) leaves the zero value
Unmarshal(doc) ==
    LET typeErr ==
            \/ doc.kind = "string"
            \/ doc.kind = "object" /\ doc.repo = "num"
            \/ doc.kind = "object" /\ doc.repo = "object" /\ doc.full_name.t = "num"
            \/ doc.kind = "object" /\ doc.after.t = "num"
        name == IF doc.kind = "object" /\ doc.repo = "object" /\ doc.full_name.t = "str"
                THEN doc.full_name.v ELSE <<>>
        after == IF doc.kind = "object" /\ doc.after.t = "str" THEN doc.after.v ELSE ""
    IN  [err |-> doc.kind = "syntax" \/ typeErr,
         gh |-> [FullName |-> name, After |-> after]]

\* RestoreBody if line 143 were missing: ReadAll has consumed r.Body
RestoreBody_missing(b) == Drained

\* main.go 143: r.Body = io.NopCloser(bytes.NewBuffer(b))
RestoreBody(b) == b

\* SlotOf if svc and tunnel were variables of gitCloneProxy itself, shared
\* by every invocation of the closure it returns
SlotOf_shared(r) == 1

\* the svc/tunnel variables used by the handler invocation serving r: they
\* are locals of the returned closure (main.go 164, 171)
SlotOf(r) == r

\* ------------------------------------------------- gitCloneProxy (handler)
\* Fail if the handler ended the process (log.Fatalf) after writing the error
Fail_fatal(r, next) ==
    /\ resp' = [resp EXCEPT ![r] = 500]
    /\ hpc' = [x \in Requests |-> "gone"]
    /\ mpc' = "fatal"

\* log.Printf, http.Error(w, ..., 500) and return: the handler goes on to
\* position next (the deferred calls registered so far, or the end) and the
\* process goes on serving
Fail(r, next) ==
    /\ resp' = [resp EXCEPT ![r] = 500]
    /\ hpc' = [hpc EXCEPT ![r] = next]
    /\ mpc' = mpc

\* the handler goes on to its next statement
Goto(r, next) ==
    /\ hpc' = [hpc EXCEPT ![r] = next]
    /\ resp' = resp
    /\ mpc' = mpc

handlerFrame == <<scenario, hooksPath, mainCli, hooks, synced, stopFn, notify, ch, gpc, stopRuns>>

\* the server accepts a request and starts the handler; main.go 137-143
CloneAccept(r) ==
    /\ Serving /\ ~StaticMode /\ Admitted(r)
    /\ hpc[r] = "idle"
    /\ \E doc \in Bodies(r), m \in Methods, readOk \in BOOLEAN :
          /\ body' = [body EXCEPT ![r] = doc]
          /\ method' = [method EXCEPT ![r] = m]
          /\ IF readOk
             THEN /\ reqBody' = [reqBody EXCEPT ![r] = RestoreBody(doc)]
                  /\ Goto(r, "unmarshal")
             ELSE /\ reqBody' = [reqBody EXCEPT ![r] = Drained]
                  /\ Fail(r, "done")
    /\ UNCHANGED <<gh, cancelled, cli, attempts, resolved, fwd>>
    /\ UNCHANGED <<handlerFrame, slotVars>>

\* main.go 145-150
CloneUnmarshal(r) ==
    /\ Serving
    /\ hpc[r] = "unmarshal"
    /\ LET u == Unmarshal(body[r]) IN
          IF u.err
          THEN Fail(r, "done") /\ gh' = gh
          ELSE /\ gh' = [gh EXCEPT ![r] = u.gh]
               /\ Goto(r, "connect")
    /\ UNCHANGED <<body, method, reqBody, cancelled, cli, attempts, resolved, fwd>>
    /\ UNCHANGED <<handlerFrame, slotVars>>

\* main.go 152-159
CloneConnect(r) ==
    /\ Serving
    /\ hpc[r] = "connect"
    /\ attempts' = [attempts EXCEPT ![r] = @ \cup {"connect"}]
    /\ \E ok \in (IF cancelled[r] THEN {FALSE} ELSE BOOLEAN) :
          IF ok
          THEN /\ cli' = [cli EXCEPT ![r] = "open"]
               /\ Goto(r, "start")
          ELSE Fail(r, "done") /\ cli' = cli
    /\ UNCHANGED <<body, method, reqBody, gh, cancelled, resolved, fwd>>
    /\ UNCHANGED <<handlerFrame, slotVars>>

\* operations of the pipeline that Start has attempted when it ends with o
StartAttempts(o) ==
    IF o = "resolve_err" THEN {"resolve"}
    ELSE IF o = "provision_err" THEN {"resolve", "instantiate"}
    ELSE {"resolve", "instantiate", "open"}

\* AfterStartError if the return skipped the deferred client.Close
AfterStartError_noClose == "done"

\* position after a return that follows line 159 and precedes line 177:
\* only client.Close is deferred
AfterStartError == "d_close"

\* StartFailed if the error of Start were not tested
StartFailed_ignored(o) == FALSE

\* main.go 172: err != nil after Tunnel(svc).Start
StartFailed(o) == o # "ok"

\* main.go 161-182: the lazy definitions of repo and svc, Tunnel(svc).Start
\* and, when it succeeds, the registration of the deferred teardown
CloneStart(r) ==
    /\ Serving
    /\ hpc[r] = "start"
    /\ \E o \in StartOutcomes(cancelled[r]) :
          LET s == SlotOf(r) IN
          /\ attempts' = [attempts EXCEPT ![r] = @ \cup StartAttempts(o)]
          /\ resolved' = [resolved EXCEPT ![r] =
                 [url |-> CloneURL(gh[r].FullName), commit |-> gh[r].After, done |-> TRUE]]
          /\ env' = [env EXCEPT ![s] = EnvAfterStart(o)]
          /\ tun' = [tun EXCEPT ![s] = TunAfterStart(o)]
          /\ calls' = [calls EXCEPT ![s] = CallsAfterStart(@, o)]
          /\ mount' = [mount EXCEPT ![s] =
                 IF o = "resolve_err" THEN @ ELSE MountPath(gh[r].FullName)]
          /\ IF StartFailed(o)
             THEN Fail(r, AfterStartError)
             ELSE Goto(r, "endpoint")
    /\ UNCHANGED <<body, method, reqBody, gh, cancelled, cli, fwd, endpoint>>
    /\ UNCHANGED handlerFrame

\* main.go 184-200: tunnel.Endpoint, url.Parse and, when both succeed, the
\* request goes upstream to that endpoint with what r.Body now yields
CloneEndpoint(r) ==
    /\ Serving
    /\ hpc[r] = "endpoint"
    /\ \/ /\ Fail(r, "d_svcstop")
          /\ UNCHANGED <<endpoint, attempts, fwd, reqBody>>
       \/ /\ ~cancelled[r]
          /\ \E e \in Endpoints(SlotOf(r)) :
                IF UrlParseOk(e)
                THEN /\ endpoint' = [endpoint EXCEPT ![SlotOf(r)] = e]
                     /\ attempts' = [attempts EXCEPT ![r] = @ \cup {"forward"}]
                     /\ fwd' = [fwd EXCEPT ![r] = [to |-> e, method |-> method[r], body |-> reqBody[r],
                                                   sent |-> TRUE]]
                     /\ reqBody' = [reqBody EXCEPT ![r] = Drained]
                     /\ Goto(r, "relaying")
                ELSE /\ Fail(r, "d_svcstop")
                     /\ UNCHANGED <<endpoint, attempts, fwd, reqBody>>
    /\ UNCHANGED <<body, method, gh, cancelled, cli, resolved>>
    /\ UNCHANGED <<handlerFrame, env, tun, mount, calls>>

\* RelayOutcomes if a relay could only return while the pair is up
RelayOutcomes_needsLive(live) ==
    IF live THEN {"ok", "transport_err"} ELSE {}

\* results of ReverseProxy.ServeHTTP: the upstream answers (200) or the
\* transport fails (502 from the proxy's default error handler)
RelayOutcomes(live) ==
    IF live THEN {"ok", "transport_err"} ELSE {"transport_err"}

RelayStatus(o) == IF o = "transport_err" THEN 502 ELSE 200

Live(s) == env[s] = "running" /\ tun[s] = "open"

\* main.go 200-201: ServeHTTP returns (or panics) and the handler ends; the
\* deferred teardown of main.go 177 is next
CloneRelayEnd(r) ==
    /\ Serving
    /\ hpc[r] = "relaying"
    /\ \E o \in RelayOutcomes(Live(SlotOf(r)) /\ ~cancelled[r]) :
          resp' = [resp EXCEPT ![r] = RelayStatus(o)]
    /\ hpc' = [hpc EXCEPT ![r] = "d_svcstop"]
    /\ UNCHANGED <<body, method, reqBody, gh, cancelled, cli, attempts, resolved, fwd>>
    /\ UNCHANGED <<scenario, procVars, slotVars>>

\* main.go 178-179 (deferred): svc.Stop(ctx) with the request's context
CloneSvcStop(r) ==
    /\ Serving
    /\ hpc[r] = "d_svcstop"
    /\ env' = SvcStop(env, SlotOf(r), cancelled[r])
    /\ calls' = [calls EXCEPT ![SlotOf(r)].stop = @ + 1]
    /\ hpc' = [hpc EXCEPT ![r] = "d_tunstop"]
    /\ UNCHANGED <<body, method, reqBody, gh, cancelled, cli, attempts, resolved, resp, fwd>>
    /\ UNCHANGED <<scenario, procVars, tun, mount, endpoint>>

\* main.go 180-181 (deferred): tunnel.Stop(ctx) with the request's context
CloneTunStop(r) ==
    /\ Serving
    /\ hpc[r] = "d_tunstop"
    /\ tun' = TunnelStop(tun, SlotOf(r), cancelled[r])
    /\ calls' = [calls EXCEPT ![SlotOf(r)].close = @ + 1]
    /\ hpc' = [hpc EXCEPT ![r] = "d_close"]
    /\ UNCHANGED <<body, method, reqBody, gh, cancelled, cli, attempts, resolved, resp, fwd>>
    /\ UNCHANGED <<scenario, procVars, env, mount, endpoint>>

\* main.go 159 (deferred): client.Close(), then the handler has returned
CloneClientClose(r) ==
    /\ Serving
    /\ hpc[r] = "d_close"
    /\ cli' = [cli EXCEPT ![r] = "closed"]
    /\ hpc' = [hpc EXCEPT ![r] = "done"]
    /\ UNCHANGED <<body, method, reqBody, gh, cancelled, attempts, resolved, resp, fwd>>
    /\ UNCHANGED <<scenario, procVars, slotVars>>

\* the caller goes away while its request is being handled: r.Context() is
\* cancelled (main.go 152)
Cancel(r) ==
    /\ Serving
    /\ hpc[r] \in {"unmarshal", "connect", "start", "endpoint", "relaying",
                 "s_relaying", "d_svcstop", "d_tunstop"}
    /\ ~cancelled[r]
    /\ cancelled' = [cancelled EXCEPT ![r] = TRUE]
    /\ UNCHANGED <<hpc, body, method, reqBody, gh, cli, attempts, resolved, resp, fwd>>
    /\ UNCHANGED <<scenario, procVars, slotVars>>

\* --------------------------------------------- reverseProxy (static handler)
\* StaticTarget if the handler looked the endpoint up per request
StaticTarget_perRequest(r) == endpoint[r]

\* main.go 115, 121-122: rp and endpoint are captured by the handler closure
StaticTarget(r) == endpoint[0]

\* main.go 120-122: every request goes to the endpoint captured at startup
StaticRelayBegin(r) ==
    /\ Serving /\ StaticMode /\ Admitted(r)
    /\ hpc[r] = "idle"
    /\ \E doc \in Bodies(r), m \in Methods :
          /\ body' = [body EXCEPT ![r] = doc]
          /\ method' = [method EXCEPT ![r] = m]
          /\ fwd' = [fwd EXCEPT ![r] = [to |-> StaticTarget(r), method |-> m, body |-> doc,
                                        sent |-> TRUE]]
    /\ reqBody' = [reqBody EXCEPT ![r] = Drained]
    /\ attempts' = [attempts EXCEPT ![r] = @ \cup {"forward"}]
    /\ hpc' = [hpc EXCEPT ![r] = "s_relaying"]
    /\ UNCHANGED <<gh, cancelled, cli, resolved, resp>>
    /\ UNCHANGED <<scenario, procVars, slotVars>>

\* main.go 122-123
StaticRelayEnd(r) ==
    /\ Serving
    /\ hpc[r] = "s_relaying"
    /\ \E o \in RelayOutcomes(Live(0) /\ ~cancelled[r]) :
          resp' = [resp EXCEPT ![r] = RelayStatus(o)]
    /\ hpc' = [hpc EXCEPT ![r] = "done"]
    /\ UNCHANGED <<body, method, reqBody, gh, cancelled, cli, attempts, resolved, fwd>>
    /\ UNCHANGED <<scenario, procVars, slotVars>>

\* ------------------------------------------------------------ specification
MainStep ==
    \/ MainConnect
    \/ MainSync
    \/ MainMode
    \/ MainHooks
    \/ RpStart
    \/ RpEndpoint
    \/ MainSetup
    \/ MainListen
    \/ ServeExit

SignalStep ==
    \/ Signal
    \/ GStop
    \/ GTunStop

CloneStep(r) ==
    \/ CloneAccept(r)
    \/ CloneUnmarshal(r)
    \/ CloneConnect(r)
    \/ CloneStart(r)
    \/ CloneEndpoint(r)
    \/ CloneRelayEnd(r)
    \/ CloneSvcStop(r)
    \/ CloneTunStop(r)
    \/ CloneClientClose(r)

StaticStep(r) ==
    \/ StaticRelayBegin(r)
    \/ StaticRelayEnd(r)

Next ==
    \/ MainStep
    \/ SignalStep
    \/ \E r \in Requests : CloneStep(r)
    \/ \E r \in Requests : StaticStep(r)
    \/ \E r \in Requests : Cancel(r)

Spec == Init /\ [][Next]_vars
SpecSingle == InitSingle /\ [][Next]_vars

\* ------------------------------------------------------------------ claims
CloneMode == ~StaticMode
PipelineOps == {"resolve", "instantiate", "open", "forward"}

\* C1: in clone-and-proxy mode, once a handler has returned, the environment
\* it provisioned (if any) has had Stop and its tunnel Close invoked exactly
\* once each, and neither is still live -- whatever stage failed.
C1_TeardownExactlyOnce ==
    \A r \in Requests :
        (CloneMode /\ hpc[r] = "done" /\ env[SlotOf(r)] # "none") =>
            /\ calls[SlotOf(r)].stop = 1
            /\ calls[SlotOf(r)].close = 1
            /\ env[SlotOf(r)] # "running"
            /\ tun[SlotOf(r)] # "open"

\* C2: in clone-and-proxy mode a request whose body is not valid JSON never
\* causes a client connection, resolve, instantiate, tunnel open or forward,
\* and is answered with 500.
C2_MalformedNoProvisioning ==
    \A r \in Requests :
        (CloneMode /\ body[r].kind = "syntax") =>
            /\ hpc[r] \in {"unmarshal", "done"}
            /\ attempts[r] = {}
            /\ cli[r] = "none"
            /\ calls[SlotOf(r)] = ZeroCalls
            /\ env[SlotOf(r)] = "none" /\ tun[SlotOf(r)] = "none"
            /\ ~fwd[r].sent
            /\ (hpc[r] = "done" => resp[r] = 500)

\* a body that is not JSON was read in full, failed to decode and was
\* answered with 500
C2_Witness ==
    \E r \in Requests :
        /\ CloneMode /\ body[r].kind = "syntax" /\ reqBody[r] = body[r]
        /\ hpc[r] = "done" /\ resp[r] = 500

\* valid JSON in which repository.full_name or after is absent or empty
RequiredMissing(doc) ==
    \/ doc.kind = "null"
    \/ /\ doc.kind = "object"
       /\ doc.repo # "num" /\ doc.full_name.t # "num" /\ doc.after.t # "num"
       /\ \/ doc.repo = "absent"
          \/ doc.full_name.t = "absent"
          \/ doc.full_name.v = <<>>
          \/ doc.after.t = "absent"
          \/ doc.after.v = ""

\* C3: in clone-and-proxy mode a request whose body is valid JSON with a
\* required field absent or empty is answered with an error and never gets
\* as far as resolve, instantiate, tunnel open or forward.
C3_MissingFieldsNoProvisioning ==
    \A r \in Requests :
        (CloneMode /\ RequiredMissing(body[r])) =>
            /\ attempts[r] \cap PipelineOps = {}
            /\ (hpc[r] = "done" => resp[r] >= 400)

\* C4: however many signals arrive, stop() runs at most once and the shared
\* service and tunnel are stopped at most once each.
C4_StopAtMostOnce ==
    /\ stopRuns <= 1
    /\ calls[0].stop <= 1
    /\ calls[0].close <= 1

\* static mode: the first signal has been handled to the end and a later one
\* sits in the channel, which nobody reads any more
C4_Witness ==
    /\ StaticMode /\ stopRuns = 1 /\ gpc = "done" /\ ch = 1
    /\ calls[0].stop = 1 /\ calls[0].close = 1

\* C5: once a signal has been handled (stop and cancel have run) the
\* listener no longer accepts requests: the serving loop has returned.
C5_SignalShutsDown == gpc = "done" => mpc # "serving"

\* C6: in static mode, when the process has ended by the serving loop
\* returning, the shared service and tunnel have been torn down exactly once.
C6_StaticTeardownOnExit ==
    (StaticMode /\ mpc = "exited" /\ calls[0].open > 0) =>
        /\ calls[0].stop = 1
        /\ calls[0].close = 1

\* C7: in static mode the service is instantiated and the tunnel opened
\* exactly once, the endpoint stays the one obtained at startup, every
\* request is relayed to it and no request provisions anything.
C7_StaticEndpointReused ==
    StaticMode =>
        /\ calls[0].inst <= 1 /\ calls[0].open <= 1
        /\ mpc \in {"setup", "listen", "serving"} =>
              /\ calls[0].inst = 1 /\ calls[0].open = 1
              /\ endpoint[0] = GoodEndpoint(0)
        /\ \A r \in Requests :
              /\ calls[r] = ZeroCalls /\ env[r] = "none" /\ tun[r] = "none"
              /\ attempts[r] \subseteq {"forward"}
              /\ fwd[r].sent => fwd[r].to = GoodEndpoint(0) /\ fwd[r].to = endpoint[0]

\* two requests are being relayed at the same time
C7_Witness ==
    /\ StaticMode /\ NumRequests >= 2
    /\ hpc[1] = "s_relaying" /\ hpc[2] = "s_relaying"
    /\ fwd[1].sent /\ fwd[2].sent

\* C8: the server listens, and handlers run, only after the template was
\* built and, in static mode, after a non-empty hooks file was read and the
\* shared tunnel opened; a failed startup never leads to listening.
C8_ListenOnlyAfterStartup ==
    /\ mpc \in {"listen", "serving"} =>
          /\ synced /\ mainCli = "open"
          /\ StaticMode => (hooks = "[hooks]" /\ calls[0].open = 1 /\ endpoint[0] # NoEndpoint)
    /\ (\E r \in Requests : hpc[r] \notin {"idle", "gone"}) =>
          /\ synced
          /\ StaticMode => hooks = "[hooks]"
    /\ mpc = "fatal" => \A r \in Requests : hpc[r] = "idle"

\* the hooks file was empty and the process ended before listening
C8_Witness ==
    /\ StaticMode /\ synced /\ hooks = "" /\ mpc = "fatal" /\ ~notify

\* C9: a step in which a handler answers with an error (500 or 502) is taken
\* while serving, leaves the server serving and leaves the other handlers
\* where they are.
C9_RequestErrorsKeepServing ==
    [][\A r \in Requests :
          (resp[r] = 0 /\ resp'[r] \in {500, 502}) =>
              /\ mpc = "serving" /\ mpc' = "serving"
              /\ \A q \in Requests \ {r} : hpc'[q] = hpc[q] /\ resp'[q] = resp[q]]_vars

\* one request has failed and another one is in the pipeline
C9_Witness ==
    \E r, q \in Requests :
        /\ r # q /\ mpc = "serving" /\ CloneMode
        /\ hpc[r] = "done" /\ resp[r] \in {500, 502}
        /\ hpc[q] \in {"connect", "start", "endpoint", "relaying"}

\* C10: with concurrent requests in clone-and-proxy mode, from the moment a
\* handler's tunnel is open until its own teardown starts, its service runs
\* and its tunnel is open, the payload is mounted at "/" + its own repository
\* name, and the pair was started once and stopped by nobody.
C10_IndependentEnvironments ==
    \A r \in Requests :
        (scenario = "concurrent" /\ CloneMode
         /\ hpc[r] \in {"endpoint", "relaying", "d_svcstop"}) =>
            /\ Live(SlotOf(r))
            /\ mount[SlotOf(r)] = <<"/", Owners[r]>>
            /\ calls[SlotOf(r)] = [inst |-> 1, open |-> 1, stop |-> 0, close |-> 0]

\* one request's pair has been torn down while the other is being relayed
C10_Witness ==
    \E r, q \in Requests :
        /\ r # q /\ CloneMode
        /\ hpc[r] = "relaying" /\ Live(SlotOf(r))
        /\ hpc[q] = "done" /\ env[SlotOf(q)] = "stopped" /\ tun[SlotOf(q)] = "closed"

\* the two required members are present, are strings and are not empty
WellFormed(doc) ==
    /\ doc.kind = "object" /\ doc.repo = "object"
    /\ doc.full_name.t = "str" /\ doc.full_name.v # <<>>
    /\ doc.after.t = "str" /\ doc.after.v # ""

\* seg is what follows the last "/" of s (all of s when it has none)
IsLastSegment(s, seg) ==
    \E i \in 0..Len(s) :
        /\ seg = SubSeq(s, i + 1, Len(s))
        /\ \A j \in 1..Len(seg) : seg[j] # "/"
        /\ i = 0 \/ s[i] = "/"

\* what C11 says of a well-formed payload: the resolver gets the clone URL of
\* repository.full_name and the commit after, and the payload is mounted
\* under the last segment of the name
WellFormedResolved(r) ==
    (WellFormed(body[r]) /\ resolved[r].done) =>
        /\ resolved[r].url = <<"https://github.com/">> \o body[r].full_name.v
        /\ resolved[r].commit = body[r].after.v
        /\ env[SlotOf(r)] # "none" =>
              /\ Len(mount[SlotOf(r)]) >= 1 /\ mount[SlotOf(r)][1] = "/"
              /\ IsLastSegment(body[r].full_name.v, Tail(mount[SlotOf(r)]))

\* the body does not decode into a GithubWebhook: it is not JSON, or a
\* member (or the document itself) has the wrong JSON type
Malformed(doc) ==
    \/ doc.kind \in {"syntax", "string"}
    \/ /\ doc.kind = "object"
       /\ doc.repo = "num" \/ doc.full_name.t = "num" \/ doc.after.t = "num"

C12_BodyForwardedIntact ==
    \A r \in Requests :
        (CloneMode /\ fwd[r].sent) =>
            /\ fwd[r].body = body[r]
            /\ fwd[r].method = method[r]
            /\ body[r] \in AllBodies \cup PushBodies(r)
            /\ method[r] \in {"POST", "GET"}

\* a GET with a body that decodes but lacks both members has gone upstream
C12_Witness ==
    \E r \in Requests :
        /\ CloneMode /\ fwd[r].sent /\ hpc[r] = "relaying"
        /\ body[r] = EmptyObj /\ fwd[r].body = EmptyObj
        /\ method[r] = "GET" /\ fwd[r].method = "GET"

\* C13: in clone-and-proxy mode, when the caller went away after the
\* environment was provisioned, the deferred teardown still takes effect:
\* once the handler has returned after calling Stop on both, the service is
\* not running and the tunnel is not open.
C13_TeardownSurvivesCancel ==
    \A r \in Requests :
        (CloneMode /\ hpc[r] = "done" /\ cancelled[r]
         /\ calls[SlotOf(r)].stop = 1 /\ calls[SlotOf(r)].close = 1) =>
            /\ env[SlotOf(r)] # "running"
            /\ tun[SlotOf(r)] # "open"

\* C14: a tunnel is stopped before or together with its service: no service
\* is stopped while its tunnel is still open.
C14_TunnelStoppedFirst ==
    \A s \in Slots : ~(env[s] = "stopped" /\ tun[s] = "open")

\* C15: in clone-and-proxy mode a request goes upstream only after resolve,
\* instantiate, tunnel open and endpoint resolution all succeeded, and then to
\* the endpoint of its own tunnel; a failure before that is answered with 500
\* and nothing is forwarded; 502 is only ever the answer to a forward.
C15_FailureShortCircuits ==
    \A r \in Requests :
        CloneMode =>
            /\ fwd[r].sent =>
                  /\ {"resolve", "instantiate", "open", "forward"} \subseteq attempts[r]
                  /\ calls[SlotOf(r)].inst = 1 /\ calls[SlotOf(r)].open = 1
                  /\ tun[SlotOf(r)] # "none"
                  /\ fwd[r].to = GoodEndpoint(SlotOf(r))
                  /\ resp[r] \in {0, 200, 502}
            /\ resp[r] = 500 => (~fwd[r].sent /\ "forward" \notin attempts[r])
            /\ resp[r] = 502 => fwd[r].sent
            /\ (hpc[r] \in {"d_svcstop", "d_tunstop", "d_close", "done"} /\ ~fwd[r].sent) =>
                  resp[r] = 500

\* Start failed at the tunnel stage: 500, nothing forwarded
C15_Witness ==
    \E r \in Requests :
        /\ CloneMode /\ hpc[r] = "done" /\ resp[r] = 500 /\ ~fwd[r].sent
        /\ attempts[r] = {"connect", "resolve", "instantiate", "open"}
        /\ tun[SlotOf(r)] = "none"

\* C16: in clone-and-proxy mode the signal goroutine's steps (receive, stop(),
\* cancel()) leave every request's environment, tunnel, client, cancellation
\* and position untouched, and a request's environment or tunnel is stopped
\* only by a step of that request's own deferred teardown.
C16_SignalLeavesRequestsAlone ==
    [][CloneMode =>
          /\ (gpc' # gpc \/ stopRuns' # stopRuns \/ ch' # ch) =>
                /\ env' = env /\ tun' = tun /\ calls' = calls /\ endpoint' = endpoint
                /\ hpc' = hpc /\ cancelled' = cancelled /\ cli' = cli
                /\ resp' = resp /\ fwd' = fwd
          /\ \A r \in Requests :
                /\ calls'[SlotOf(r)].stop # calls[SlotOf(r)].stop => hpc[r] = "d_svcstop"
                /\ calls'[SlotOf(r)].close # calls[SlotOf(r)].close => hpc[r] = "d_tunstop"
                /\ (env'[SlotOf(r)] = "stopped" /\ env[SlotOf(r)] # "stopped") =>
                      hpc[r] = "d_svcstop"
                /\ (tun'[SlotOf(r)] = "closed" /\ tun[SlotOf(r)] # "closed") =>
                      hpc[r] = "d_tunstop"]_vars

\* the goroutine has run stop() and ended while a request is still relaying
\* through its live environment
C16_Witness ==
    /\ CloneMode /\ stopRuns = 1 /\ gpc = "done" /\ stopFn = "noop"
    /\ \E r \in Requests : hpc[r] = "relaying" /\ Live(SlotOf(r))

\* C17: in every reachable state of either mode each environment has had at
\* most one tunnel opened onto it, and an open tunnel belongs to an
\* environment that was instantiated exactly once.
C17_OneTunnelPerEnvironment ==
    \A s \in Slots :
        /\ calls[s].open <= 1
        /\ tun[s] = "open" => (calls[s].open = 1 /\ calls[s].inst = 1 /\ env[s] # "none")
        /\ env[s] = "running" => calls[s].inst = 1

\* every request is relaying at once, each through its own open tunnel
C17_Witness ==
    /\ CloneMode
    /\ \A r \in Requests : hpc[r] = "relaying" /\ Live(SlotOf(r))

\* C18: in static mode, while the process serves, teardown of the shared pair
\* never strands a request: a request that arrives is taken even after the
\* teardown began, a request being relayed can always return, what it returns
\* is a completion or a transport error, and once the pair is no longer up
\* the only answer is the transport error.
C18_TeardownNeverStrandsRelay ==
    StaticMode =>
        \A r \in Requests :
            /\ (Serving /\ Admitted(r) /\ hpc[r] = "idle") => ENABLED StaticRelayBegin(r)
            /\ (Serving /\ hpc[r] = "s_relaying") => ENABLED StaticRelayEnd(r)
            /\ hpc[r] = "s_relaying" => (fwd[r].sent /\ resp[r] = 0)
            /\ hpc[r] = "done" => resp[r] \in {200, 502}
            /\ (hpc[r] = "done" /\ resp[r] = 200) => calls[0].inst = 1

\* the signal goroutine is between svc.Stop and tunnel.Stop while a request
\* is being relayed
C18_Witness ==
    /\ StaticMode /\ Serving /\ gpc = "tunstop"
    /\ \E r \in Requests : hpc[r] = "s_relaying"

\* C19: in clone-and-proxy mode a relay runs only while its request's tunnel
\* is open and its environment running and untouched by teardown, and the
\* request's teardown (service Stop, tunnel Stop, client Close) starts only
\* after its forward has returned with a response.
C19_RelayWithinLifetime ==
    \A r \in Requests :
        CloneMode =>
            /\ hpc[r] = "relaying" =>
                  /\ Live(SlotOf(r))
                  /\ calls[SlotOf(r)].stop = 0 /\ calls[SlotOf(r)].close = 0
                  /\ cli[r] = "open"
                  /\ resp[r] = 0
            /\ (hpc[r] # "gone" /\ (calls[SlotOf(r)].stop > 0 \/ calls[SlotOf(r)].close > 0)) =>
                  /\ hpc[r] \in {"d_tunstop", "d_close", "done"}
                  /\ fwd[r].sent => resp[r] \in {200, 502}
            /\ hpc[r] \in {"d_svcstop", "d_tunstop"} =>
                  (fwd[r].sent => resp[r] \in {200, 502})

\* the forward has returned with an answer and the teardown has begun
C19_Witness ==
    \E r \in Requests :
        /\ CloneMode /\ hpc[r] = "d_tunstop" /\ fwd[r].sent /\ resp[r] = 200
        /\ calls[SlotOf(r)].stop = 1 /\ calls[SlotOf(r)].close = 0

\* C20: in clone-and-proxy mode a handler that connected its own client has
\* closed it by the time it has returned, on every exit path; the client is
\* closed only at the handler's last step, after the service Stop and tunnel
\* Stop of its deferred teardown were invoked when the teardown was
\* registered; a handler that never connected has no client.
C20_ClientClosedLast ==
    \A r \in Requests :
        CloneMode =>
            /\ hpc[r] = "done" =>
                  /\ cli[r] \in {"none", "closed"}
                  /\ cli[r] = "closed" <=> "resolve" \in attempts[r]
            /\ cli[r] = "closed" =>
                  /\ hpc[r] = "done"
                  /\ tun[SlotOf(r)] # "none" =>
                        (calls[SlotOf(r)].stop = 1 /\ calls[SlotOf(r)].close = 1)
            /\ cli[r] = "open" =>
                  hpc[r] \in {"start", "endpoint", "relaying", "d_svcstop", "d_tunstop", "d_close"}
            /\ hpc[r] \in {"d_svcstop", "d_tunstop", "d_close"} => cli[r] = "open"

\* one handler returned after a full relay and teardown, another after a
\* failed Start; both closed their clients
C20_Witness ==
    /\ CloneMode
    /\ \E r \in Requests :
          /\ hpc[r] = "done" /\ cli[r] = "closed" /\ fwd[r].sent
          /\ calls[SlotOf(r)].stop = 1 /\ calls[SlotOf(r)].close = 1
    /\ \E r \in Requests :
          /\ hpc[r] = "done" /\ cli[r] = "closed" /\ ~fwd[r].sent
          /\ tun[SlotOf(r)] = "none"

====
